---- MODULE Spec2Model ----
(***************************************************************************)
(* Frontend Quiz App: the session state held by the App component, its     *)
(* mirror in window.localStorage, the pending setTimeout callbacks of      *)
(* handleNext, and what App last rendered (the controls a user can reach). *)
(***************************************************************************)
EXTENDS Integers, Sequences, FiniteSets, TLC

VARIABLES
    currentState,          \* "menu" | "question" | "result"
    selectedQuiz,          \* Null or a quiz object
    isDark,                \* theme flag
    currentQuestionIndex,  \* 0-based index
    selectedAnswers,       \* in-progress answers (JS array)
    userAnswers,           \* answers submitted with the last question
    showFeedback,          \* feedback interval flag
    localStorage,          \* key -> stored item
    timers,                \* pending setTimeout callbacks, oldest first:
                           \* each is the currentQuestionIndex it captured
    rendered,              \* what App returned at its last render
    lastCall,              \* history: the handler that ran last
    run                    \* history: handleNext calls since handleQuizSelect

state == <<currentState, selectedQuiz, isDark, currentQuestionIndex,
           selectedAnswers, userAnswers, showFeedback>>
vars == <<currentState, selectedQuiz, isDark, currentQuestionIndex,
          selectedAnswers, userAnswers, showFeedback, localStorage, timers,
          rendered, lastCall, run>>

(*************************** bounds ***************************************)
\* most setTimeout callbacks pending at once
MaxTimers == 2
\* longest quiz and answer list given to the results screen in SpecScore
MaxScoreLen == 8
\* handleAnswerSelect calls counted in a run; this many stands for more
MaxPicks == 3

(*************************** values ***************************************)
\* JavaScript null for the selected quiz
Null == [isNull |-> TRUE]
\* An array slot never assigned (a hole), read back as undefined
Undefined == "undefined"
\* What JSON.stringify writes for a hole and JSON.parse reads back
JsonNull == "null"
\* The number NaN, and an ordinary number
NaN == [isNaN |-> TRUE]
Num(v) == [isNaN |-> FALSE, value |-> v]

\* mutant of ArrayFill: one slot short
ArrayFillShort(n) == [i \in 1..(n - 1) |-> ""]

\* new Array(n).fill("")
ArrayFill(n) == [i \in 1..n |-> ""]

\* arr[index] for a 0-based index: undefined outside the array
ArrayGet(arr, index) ==
    IF index >= 0 /\ index < Len(arr) THEN arr[index + 1] ELSE Undefined

\* mutant of ArraySet: push instead of assigning at the index
ArraySetPush(arr, index, value) == Append(arr, value)

\* mutant of ArraySet: selecting the selected answer again clears it
ArraySetToggle(arr, index, value) ==
    IF index < Len(arr) /\ arr[index + 1] = value
    THEN [arr EXCEPT ![index + 1] = ""]
    ELSE [arr EXCEPT ![index + 1] = value]

\* copy = [...arr]; copy[index] = value: an index past the end grows the
\* mutant of ArraySet: the answers after the index are emptied
ArraySetFromIndex(arr, index, value) ==
    [i \in 1..(IF index + 1 > Len(arr) THEN index + 1 ELSE Len(arr)) |->
        IF i = index + 1 THEN value
        ELSE IF i > index + 1 THEN ""
        ELSE IF i <= Len(arr) THEN arr[i] ELSE Undefined]

\* array and leaves holes before it
ArraySet(arr, index, value) ==
    IF index < Len(arr)
    THEN [arr EXCEPT ![index + 1] = value]
    ELSE arr \o [k \in 1..(index - Len(arr)) |-> Undefined] \o <<value>>

(*************************** catalog **************************************)
Question(text, options, answer) ==
    [question |-> text, options |-> options, answer |-> answer]

HTML == [title |-> "HTML",
         questions |-> << Question("h1", <<"A", "B", "C", "D">>, "B"),
                          Question("h2", <<"A", "B", "C", "D">>, "B") >>]
CSS == [title |-> "CSS",
        questions |-> << Question("c1", <<"A", "B">>, "A"),
                         Question("c2", <<"A", "B">>, "B"),
                         Question("c3", <<"A", "B">>, "A") >>]
JavaScript == [title |-> "JavaScript",
               questions |-> << Question("j1", <<"A", "B">>, "B") >>]

\* quizData.quizzes
quizData == <<HTML, CSS, JavaScript>>

\* selectedQuiz?.questions.length || 0
QuestionsLength(quiz) == IF quiz = Null THEN 0 ELSE Len(quiz.questions)

(*************************** localStorage *********************************)
KeyState == "quiz-current-state"
KeyQuiz == "quiz-selected-quiz"
KeyTheme == "quiz-theme"
KeyIndex == "quiz-current-question"
KeySelected == "quiz-selected-answers"
KeyUser == "quiz-user-answers"
KeyFeedback == "quiz-show-feedback"
Keys == {KeyState, KeyQuiz, KeyTheme, KeyIndex, KeySelected, KeyUser,
         KeyFeedback}
ArrayKeys == {KeySelected, KeyUser}

\* getItem of a key never written
NoItem == [present |-> FALSE]

\* JSON.stringify: the text of a value; a hole of an array is written null
JSONStringify(key, value) ==
    IF key \in ArrayKeys
    THEN [json |-> [i \in DOMAIN value |->
                       IF value[i] = Undefined THEN JsonNull ELSE value[i]]]
    ELSE [json |-> value]

\* JSON.parse of a text JSONStringify wrote
JSONParse(text) == text.json

\* the initialValue of each useLocalStorage call of App
initialValue(key) ==
    CASE key = KeyState -> "menu"
      [] key = KeyQuiz -> Null
      [] key = KeyTheme -> TRUE
      [] key = KeyIndex -> 0
      [] key = KeySelected -> <<>>
      [] key = KeyUser -> <<>>
      [] key = KeyFeedback -> FALSE

\* stored texts JSON.stringify did not write: the empty string, and a text
\* JSON.parse throws on
EmptyText == [empty |-> TRUE]
NotJson == [garbage |-> TRUE]
IsJson(text) == "json" \in DOMAIN text

\* mutant of useLocalStorage: JSON.parse(item) || initialValue
useLocalStorageOrInitial(store, key) ==
    IF store[key].present /\ IsJson(store[key].text)
    THEN IF key \in {KeyTheme, KeyFeedback} /\ JSONParse(store[key].text) = FALSE
         THEN initialValue(key)
         ELSE JSONParse(store[key].text)
    ELSE initialValue(key)

\* mutant of useLocalStorage: one try block around the reads of all keys,
\* so that one text that is not JSON puts every field at its default
useLocalStorageOneTry(store, key) ==
    IF \E k \in Keys : store[k].present /\ store[k].text = NotJson
    THEN initialValue(key)
    ELSE IF store[key].present /\ IsJson(store[key].text)
         THEN JSONParse(store[key].text)
         ELSE initialValue(key)

\* useState initializer of useLocalStorage: item ? JSON.parse(item) :
\* initialValue, and initialValue again when JSON.parse throws
useLocalStorage(store, key) ==
    IF ~store[key].present \/ store[key].text = EmptyText
    THEN initialValue(key)
    ELSE IF IsJson(store[key].text)
         THEN JSONParse(store[key].text)
         ELSE initialValue(key)

\* mutant of setItem: the state is set and nothing is stored
setItemForgotten(store, writes, fail) == store

\* mutant of setItem: the catch block removes the item it could not write
setItemRemovesOnError(store, writes, fail) ==
    [k \in Keys |->
        IF k \in DOMAIN writes
        THEN IF k \in fail
             THEN NoItem
             ELSE [present |-> TRUE, text |-> JSONStringify(k, writes[k])]
        ELSE store[k]]

\* the localStorage half of setValue for the keys a handler writes: writes
\* maps each key to its new value, fail is the set of keys whose setItem throws
setItem(store, writes, fail) ==
    [k \in Keys |->
        IF k \in DOMAIN writes /\ k \notin fail
        THEN [present |-> TRUE, text |-> JSONStringify(k, writes[k])]
        ELSE store[k]]

(*************************** results screen *******************************)
\* the forEach loop of calculateScore over questions[from..], 1-based
RECURSIVE CountCorrect(_, _, _, _)
CountCorrect(questions, answers, from, correct) ==
    IF from > Len(questions)
    THEN correct
    ELSE CountCorrect(questions, answers, from + 1,
                      IF ArrayGet(answers, from - 1) = questions[from].answer
                      THEN correct + 1
                      ELSE correct)

\* mutant of calculateScore: every answer given counts
calculateScoreAnswered(quiz, answers) == Len(answers)

\* mutant of calculateScore: every non-empty answer counts
calculateScoreNonEmpty(quiz, answers) ==
    Cardinality({i \in DOMAIN answers : answers[i] # ""})

\* calculateScore of ResultsScreen
calculateScore(quiz, answers) ==
    IF quiz = Null \/ Len(answers) = 0
    THEN 0
    ELSE CountCorrect(quiz.questions, answers, 1, 0)

\* mutant of Percentage: Math.floor instead of Math.round
PercentageFloor(score, totalQuestions) ==
    IF totalQuestions = 0
    THEN NaN
    ELSE Num((100 * score) \div totalQuestions)

\* Math.round((score / totalQuestions) * 100): 0/0 is NaN, and Math.round
\* rounds a half towards +Infinity
Percentage(score, totalQuestions) ==
    IF totalQuestions = 0
    THEN NaN
    ELSE Num((2 * 100 * score + totalQuestions) \div (2 * totalQuestions))

\* what ResultsScreen shows
ResultsScreen(quiz, answers) ==
    [screen |-> "result",
     score |-> calculateScore(quiz, answers),
     totalQuestions |-> Len(quiz.questions),
     percentage |-> Percentage(calculateScore(quiz, answers),
                               Len(quiz.questions))]

(*************************** question screen ******************************)
\* !selectedAnswer
IsFalsy(answer) == answer \in {"", Undefined, JsonNull}

\* selectedQuiz.questions[currentQuestionIndex]: undefined outside the array
NoQuestion == [isUndefined |-> TRUE]
QuestionAt(quiz, index) ==
    IF index >= 0 /\ index < Len(quiz.questions)
    THEN quiz.questions[index + 1]
    ELSE NoQuestion

\* what QuestionScreen shows, and which of its controls are live; it throws
\* on question.question when the question is undefined
QuestionScreen(question, questionNumber, totalQuestions, selectedAnswer, isLastQuestion, feedback) ==
    IF question = NoQuestion
    THEN [screen |-> "crashed"]
    ELSE [screen |-> "question",
          options |-> question.options,
          questionNumber |-> questionNumber,
          totalQuestions |-> totalQuestions,
          selectedAnswer |-> selectedAnswer,
          previousDisabled |-> (questionNumber = 1),
          nextDisabled |-> IsFalsy(selectedAnswer),
          isLastQuestion |-> isLastQuestion,
          showFeedback |-> feedback]


\* the return of App: the screen chosen by currentState, or an empty div
AppRender(cs, quiz, index, selected, submitted, feedback) ==
    CASE cs = "menu" ->
           [screen |-> "menu", quizzes |-> quizData]
      [] cs = "question" /\ quiz # Null ->
           QuestionScreen(QuestionAt(quiz, index), index + 1,
                          Len(quiz.questions), ArrayGet(selected, index),
                          index = Len(quiz.questions) - 1, feedback)
      [] cs = "result" /\ quiz # Null ->
           ResultsScreen(quiz, submitted)
      [] OTHER ->
           [screen |-> "blank"]

\* App rendered with the current state
Render ==
    AppRender(currentState, selectedQuiz, currentQuestionIndex,
              selectedAnswers, userAnswers, showFeedback)

\* an error thrown while rendering unmounts the whole tree: no control is
\* left, and state setters no longer have any effect
Unmounted == rendered.screen \in {"none", "crashed"}

(*************************** handlers of App ******************************)
\* Each handler takes fail, the set of keys whose localStorage.setItem throws
\* during the call: setValue has then already set the in-memory value.

\* history: no clean run of handleNext calls is under way
NoRun == [ok |-> FALSE, advances |-> 0, picks |-> 0]

\* history for a timer callback: <<i>> when the calls before it were two
\* handleNext calls in a row at index i with no other timer pending,
\* followed by timer callbacks only
DoubleNext ==
    IF lastCall.op = "handleNext" /\ lastCall.streak = 2 /\ Len(timers) = 2
    THEN IF timers[1] = timers[2] THEN <<timers[1]>> ELSE <<>>
    ELSE IF lastCall.op = "timeout" THEN lastCall.before ELSE <<>>

\* history: the call being made, whether it repeats the previous one, and
\* what it found: the fields for toggleTheme, the screen on which the
\* button was for handleQuizSelect
Called(op, arg) ==
    [op |-> op, arg |-> arg, streak |-> IF lastCall.op = op THEN 2 ELSE 1,
     before |-> CASE op = "toggleTheme" -> state
                  [] op = "handleQuizSelect" -> <<rendered.screen>>
                  [] op = "timeout" -> DoubleNext
                  [] OTHER -> <<>>]

\* mutant of handleQuizSelect: the submitted answers are left as they were
handleQuizSelectKeepsUserAnswers(quiz, fail) ==
    /\ selectedQuiz' = quiz
    /\ currentQuestionIndex' = 0
    /\ selectedAnswers' = ArrayFill(Len(quiz.questions))
    /\ showFeedback' = FALSE
    /\ currentState' = "question"
    /\ localStorage' = setItem(localStorage,
                               [k \in {KeyQuiz, KeyIndex, KeySelected,
                                       KeyFeedback, KeyState} |->
                                  CASE k = KeyQuiz -> quiz
                                    [] k = KeyIndex -> 0
                                    [] k = KeySelected ->
                                         ArrayFill(Len(quiz.questions))
                                    [] k = KeyFeedback -> FALSE
                                    [] k = KeyState -> "question"],
                               fail)
    /\ UNCHANGED <<isDark, timers, userAnswers>>
    /\ lastCall' = Called("handleQuizSelect", quiz.title)
    /\ run' = [ok |-> (timers = <<>>), advances |-> 0, picks |-> 0]

\* handleQuizSelect(quiz)
handleQuizSelect(quiz, fail) ==
    /\ selectedQuiz' = quiz
    /\ currentQuestionIndex' = 0
    /\ selectedAnswers' = ArrayFill(Len(quiz.questions))
    /\ userAnswers' = <<>>
    /\ showFeedback' = FALSE
    /\ currentState' = "question"
    /\ localStorage' = setItem(localStorage,
                               [k \in {KeyQuiz, KeyIndex, KeySelected, KeyUser,
                                       KeyFeedback, KeyState} |->
                                  CASE k = KeyQuiz -> quiz
                                    [] k = KeyIndex -> 0
                                    [] k = KeySelected ->
                                         ArrayFill(Len(quiz.questions))
                                    [] k = KeyUser -> <<>>
                                    [] k = KeyFeedback -> FALSE
                                    [] k = KeyState -> "question"],
                               fail)
    /\ UNCHANGED <<isDark, timers>>
    /\ lastCall' = Called("handleQuizSelect", quiz.title)
    /\ run' = [ok |-> (timers = <<>>), advances |-> 0, picks |-> 0]

\* handleAnswerSelect(answer)
handleAnswerSelect(answer, fail) ==
    /\ selectedAnswers' = ArraySet(selectedAnswers, currentQuestionIndex, answer)
    /\ localStorage' = setItem(localStorage,
                               [k \in {KeySelected} |->
                                  ArraySet(selectedAnswers,
                                           currentQuestionIndex, answer)],
                               fail)
    /\ UNCHANGED <<currentState, selectedQuiz, isDark, currentQuestionIndex,
                   userAnswers, showFeedback, timers>>
    /\ lastCall' = Called("handleAnswerSelect", answer)
    /\ run' = IF run.ok /\ run.picks < MaxPicks
              THEN [run EXCEPT !.picks = run.picks + 1]
              ELSE run

\* handleNext(), not on the last question: show feedback and set the timer
handleNextFeedback(fail) ==
    /\ showFeedback' = TRUE
    /\ timers' = Append(timers, currentQuestionIndex)
    /\ localStorage' = setItem(localStorage,
                               [k \in {KeyFeedback} |-> TRUE], fail)
    /\ UNCHANGED <<currentState, selectedQuiz, isDark, currentQuestionIndex,
                   selectedAnswers, userAnswers>>

\* the type QuizState: the values currentState may be given
QuizState == {"menu", "question", "result", "completed"}

\* mutant of handleNextSubmit: the quiz ends in the state completed
handleNextSubmitCompleted(fail) ==
    /\ userAnswers' = selectedAnswers
    /\ currentState' = "completed"
    /\ localStorage' = setItem(localStorage,
                               [k \in {KeyUser, KeyState} |->
                                  IF k = KeyUser THEN selectedAnswers
                                  ELSE "completed"],
                               fail)
    /\ UNCHANGED <<selectedQuiz, isDark, currentQuestionIndex,
                   selectedAnswers, showFeedback, timers>>

\* mutant of handleNextSubmit: the answers before the current question only
handleNextSubmitSlice(fail) ==
    /\ userAnswers' = SubSeq(selectedAnswers, 1, currentQuestionIndex)
    /\ currentState' = "result"
    /\ localStorage' = setItem(localStorage,
                               [k \in {KeyUser, KeyState} |->
                                  IF k = KeyUser
                                  THEN SubSeq(selectedAnswers, 1,
                                              currentQuestionIndex)
                                  ELSE "result"],
                               fail)
    /\ UNCHANGED <<selectedQuiz, isDark, currentQuestionIndex,
                   selectedAnswers, showFeedback, timers>>

\* handleNext(), on the last question: submit
handleNextSubmit(fail) ==
    /\ userAnswers' = selectedAnswers
    /\ currentState' = "result"
    /\ localStorage' = setItem(localStorage,
                               [k \in {KeyUser, KeyState} |->
                                  IF k = KeyUser THEN selectedAnswers
                                  ELSE "result"],
                               fail)
    /\ UNCHANGED <<selectedQuiz, isDark, currentQuestionIndex,
                   selectedAnswers, showFeedback, timers>>

\* mutant of IsBeforeLast: the last question is not recognised
IsBeforeLastOffByOne(index, quiz) == index < QuestionsLength(quiz)

\* mutant of IsBeforeLast: the question before the last one submits
IsBeforeLastEarly(index, quiz) == index < QuestionsLength(quiz) - 2

\* the test of handleNext
IsBeforeLast(index, quiz) == index < QuestionsLength(quiz) - 1

\* mutant of handleNext: returns at once when the current answer is empty
handleNextChecked(fail) ==
    /\ IF IsFalsy(ArrayGet(selectedAnswers, currentQuestionIndex))
       THEN UNCHANGED <<currentState, selectedQuiz, isDark, currentQuestionIndex,
                        selectedAnswers, userAnswers, showFeedback,
                        localStorage, timers>>
       ELSE IF IsBeforeLast(currentQuestionIndex, selectedQuiz)
            THEN Len(timers) < MaxTimers /\ handleNextFeedback(fail)
            ELSE handleNextSubmit(fail)
    /\ lastCall' = Called("handleNext", "")
    /\ run' = IF run.ok /\ timers = <<>>
              THEN [run EXCEPT !.advances = run.advances + 1]
              ELSE NoRun

\* handleNext()
handleNext(fail) ==
    /\ IF IsBeforeLast(currentQuestionIndex, selectedQuiz)
       THEN Len(timers) < MaxTimers /\ handleNextFeedback(fail)
       ELSE handleNextSubmit(fail)
    /\ lastCall' = Called("handleNext", "")
    /\ run' = IF run.ok /\ timers = <<>>
              THEN [run EXCEPT !.advances = run.advances + 1]
              ELSE NoRun

\* mutant of handlePrevious: no test of the index
handlePreviousUnguarded(fail) ==
    /\ currentQuestionIndex' = currentQuestionIndex - 1
    /\ localStorage' = setItem(localStorage,
                               [k \in {KeyIndex} |-> currentQuestionIndex - 1],
                               fail)
    /\ UNCHANGED <<currentState, selectedQuiz, isDark, selectedAnswers,
                   userAnswers, showFeedback, timers>>
    /\ lastCall' = Called("handlePrevious", "")
    /\ run' = NoRun

\* mutant of handlePrevious: going back also ends the feedback
handlePreviousEndsFeedback(fail) ==
    /\ IF currentQuestionIndex > 0
       THEN /\ currentQuestionIndex' = currentQuestionIndex - 1
            /\ showFeedback' = FALSE
            /\ localStorage' = setItem(localStorage,
                                       [k \in {KeyIndex, KeyFeedback} |->
                                          IF k = KeyIndex
                                          THEN currentQuestionIndex - 1
                                          ELSE FALSE],
                                       fail)
       ELSE UNCHANGED <<currentQuestionIndex, showFeedback, localStorage>>
    /\ UNCHANGED <<currentState, selectedQuiz, isDark, selectedAnswers,
                   userAnswers, timers>>
    /\ lastCall' = Called("handlePrevious", "")
    /\ run' = NoRun

\* handlePrevious()
handlePrevious(fail) ==
    /\ IF currentQuestionIndex > 0
       THEN /\ currentQuestionIndex' = currentQuestionIndex - 1
            /\ localStorage' = setItem(localStorage,
                                       [k \in {KeyIndex} |->
                                          currentQuestionIndex - 1],
                                       fail)
       ELSE UNCHANGED <<currentQuestionIndex, localStorage>>
    /\ UNCHANGED <<currentState, selectedQuiz, isDark, selectedAnswers,
                   userAnswers, showFeedback, timers>>
    /\ lastCall' = Called("handlePrevious", "")
    /\ run' = NoRun

\* mutant of handleBackToMenu: the feedback flag is left as it was
handleBackToMenuKeepsFeedback(fail) ==
    /\ currentState' = "menu"
    /\ selectedQuiz' = Null
    /\ currentQuestionIndex' = 0
    /\ selectedAnswers' = <<>>
    /\ userAnswers' = <<>>
    /\ localStorage' = setItem(localStorage,
                               [k \in {KeyState, KeyQuiz, KeyIndex, KeySelected,
                                       KeyUser} |->
                                  CASE k = KeyState -> "menu"
                                    [] k = KeyQuiz -> Null
                                    [] k = KeyIndex -> 0
                                    [] k = KeySelected -> <<>>
                                    [] k = KeyUser -> <<>>],
                               fail)
    /\ UNCHANGED <<isDark, timers, showFeedback>>
    /\ lastCall' = Called("handleBackToMenu", "")
    /\ run' = NoRun

\* mutant of handleBackToMenu: the theme is reset with the rest
handleBackToMenuResetsTheme(fail) ==
    /\ currentState' = "menu"
    /\ selectedQuiz' = Null
    /\ currentQuestionIndex' = 0
    /\ selectedAnswers' = <<>>
    /\ userAnswers' = <<>>
    /\ showFeedback' = FALSE
    /\ isDark' = TRUE
    /\ localStorage' = setItem(localStorage,
                               [k \in {KeyState, KeyQuiz, KeyIndex, KeySelected,
                                       KeyUser, KeyFeedback, KeyTheme} |->
                                  CASE k = KeyState -> "menu"
                                    [] k = KeyQuiz -> Null
                                    [] k = KeyIndex -> 0
                                    [] k = KeySelected -> <<>>
                                    [] k = KeyUser -> <<>>
                                    [] k = KeyFeedback -> FALSE
                                    [] k = KeyTheme -> TRUE],
                               fail)
    /\ UNCHANGED <<timers>>
    /\ lastCall' = Called("handleBackToMenu", "")
    /\ run' = NoRun

\* mutant of handleBackToMenu: the pending timers are cleared
handleBackToMenuClearsTimers(fail) ==
    /\ currentState' = "menu"
    /\ selectedQuiz' = Null
    /\ currentQuestionIndex' = 0
    /\ selectedAnswers' = <<>>
    /\ userAnswers' = <<>>
    /\ showFeedback' = FALSE
    /\ timers' = <<>>
    /\ localStorage' = setItem(localStorage,
                               [k \in {KeyState, KeyQuiz, KeyIndex, KeySelected,
                                       KeyUser, KeyFeedback} |->
                                  CASE k = KeyState -> "menu"
                                    [] k = KeyQuiz -> Null
                                    [] k = KeyIndex -> 0
                                    [] k = KeySelected -> <<>>
                                    [] k = KeyUser -> <<>>
                                    [] k = KeyFeedback -> FALSE],
                               fail)
    /\ UNCHANGED <<isDark>>
    /\ lastCall' = Called("handleBackToMenu", "")
    /\ run' = NoRun

\* handleBackToMenu()
handleBackToMenu(fail) ==
    /\ currentState' = "menu"
    /\ selectedQuiz' = Null
    /\ currentQuestionIndex' = 0
    /\ selectedAnswers' = <<>>
    /\ userAnswers' = <<>>
    /\ showFeedback' = FALSE
    /\ localStorage' = setItem(localStorage,
                               [k \in {KeyState, KeyQuiz, KeyIndex, KeySelected,
                                       KeyUser, KeyFeedback} |->
                                  CASE k = KeyState -> "menu"
                                    [] k = KeyQuiz -> Null
                                    [] k = KeyIndex -> 0
                                    [] k = KeySelected -> <<>>
                                    [] k = KeyUser -> <<>>
                                    [] k = KeyFeedback -> FALSE],
                               fail)
    /\ UNCHANGED <<isDark, timers>>
    /\ lastCall' = Called("handleBackToMenu", "")
    /\ run' = NoRun

\* mutant of toggleTheme: the theme is set to light
toggleThemeLight(fail) ==
    /\ isDark' = FALSE
    /\ localStorage' = setItem(localStorage, [k \in {KeyTheme} |-> FALSE], fail)
    /\ UNCHANGED <<currentState, selectedQuiz, currentQuestionIndex,
                   selectedAnswers, userAnswers, showFeedback, timers, run>>
    /\ lastCall' = Called("toggleTheme", "")

\* toggleTheme()
toggleTheme(fail) ==
    /\ isDark' = ~isDark
    /\ localStorage' = setItem(localStorage, [k \in {KeyTheme} |-> ~isDark], fail)
    /\ UNCHANGED <<currentState, selectedQuiz, currentQuestionIndex,
                   selectedAnswers, userAnswers, showFeedback, timers, run>>
    /\ lastCall' = Called("toggleTheme", "")

\* mutant of timeoutCallback: the index the state holds when the timer
\* elapses is stepped, not the captured one, and feedback stays on
timeoutCallbackStale(index, fail) ==
    /\ IF Unmounted
       THEN UNCHANGED <<currentQuestionIndex>>
       ELSE currentQuestionIndex' = index + 2
    /\ localStorage' = setItem(localStorage,
                               [k \in {KeyIndex} |-> index + 2], fail)
    /\ UNCHANGED <<currentState, selectedQuiz, isDark, selectedAnswers,
                   userAnswers, showFeedback, run>>
    /\ lastCall' = Called("timeout", "")

\* mutant of timeoutCallback: setCurrentQuestionIndex((prev) => prev + 1)
timeoutCallbackFromCurrent(index, fail) ==
    /\ IF Unmounted
       THEN UNCHANGED <<currentQuestionIndex, showFeedback>>
       ELSE /\ currentQuestionIndex' = currentQuestionIndex + 1
            /\ showFeedback' = FALSE
    /\ localStorage' = setItem(localStorage,
                               [k \in {KeyIndex, KeyFeedback} |->
                                  IF k = KeyIndex THEN currentQuestionIndex + 1
                                  ELSE FALSE],
                               fail)
    /\ UNCHANGED <<currentState, selectedQuiz, isDark, selectedAnswers,
                   userAnswers, run>>
    /\ lastCall' = Called("timeout", "")

\* mutant of timeoutCallback: the index is stepped and the feedback stays
timeoutCallbackKeepsFeedback(index, fail) ==
    /\ IF Unmounted
       THEN UNCHANGED <<currentQuestionIndex>>
       ELSE currentQuestionIndex' = index + 1
    /\ localStorage' = setItem(localStorage,
                               [k \in {KeyIndex} |-> index + 1], fail)
    /\ UNCHANGED <<currentState, selectedQuiz, isDark, selectedAnswers,
                   userAnswers, showFeedback, run>>
    /\ lastCall' = Called("timeout", "")

\* mutant of timeoutCallback: the callback also brings the question screen
\* back
timeoutCallbackShowsQuestion(index, fail) ==
    /\ IF Unmounted
       THEN UNCHANGED <<currentQuestionIndex, showFeedback, currentState>>
       ELSE /\ currentQuestionIndex' = index + 1
            /\ showFeedback' = FALSE
            /\ currentState' = IF selectedQuiz = Null THEN currentState
                               ELSE "question"
    /\ localStorage' = setItem(localStorage,
                               [k \in {KeyIndex, KeyFeedback, KeyState} |->
                                  CASE k = KeyIndex -> index + 1
                                    [] k = KeyFeedback -> FALSE
                                    [] k = KeyState ->
                                         IF selectedQuiz = Null
                                         THEN currentState ELSE "question"],
                               fail)
    /\ UNCHANGED <<selectedQuiz, isDark, selectedAnswers, userAnswers, run>>
    /\ lastCall' = Called("timeout", "")

\* the callback handleNext gave to setTimeout, with the index it captured;
\* once the tree is unmounted only its localStorage writes take effect
timeoutCallback(index, fail) ==
    /\ IF Unmounted
       THEN UNCHANGED <<currentQuestionIndex, showFeedback>>
       ELSE /\ currentQuestionIndex' = index + 1
            /\ showFeedback' = FALSE
    /\ localStorage' = setItem(localStorage,
                               [k \in {KeyIndex, KeyFeedback} |->
                                  IF k = KeyIndex THEN index + 1 ELSE FALSE],
                               fail)
    /\ UNCHANGED <<currentState, selectedQuiz, isDark, selectedAnswers,
                   userAnswers, run>>
    /\ lastCall' = Called("timeout", "")

(*************************** start ****************************************)
\* the state the seven useLocalStorage calls of App build from a store,
\* before the first render
Constructed(store) ==
    /\ localStorage = store
    /\ currentState = useLocalStorage(store, KeyState)
    /\ selectedQuiz = useLocalStorage(store, KeyQuiz)
    /\ isDark = useLocalStorage(store, KeyTheme)
    /\ currentQuestionIndex = useLocalStorage(store, KeyIndex)
    /\ selectedAnswers = useLocalStorage(store, KeySelected)
    /\ userAnswers = useLocalStorage(store, KeyUser)
    /\ showFeedback = useLocalStorage(store, KeyFeedback)
    /\ timers = <<>>
    /\ rendered = [screen |-> "none"]
    /\ lastCall = [op |-> "none", arg |-> "", streak |-> 1, before |-> <<>>]
    /\ run = NoRun

\* a first visit: nothing stored
EmptyStore == [k \in Keys |-> NoItem]

Init == Constructed(EmptyStore)

\* createRoot(...).render(<App />): the first render
Mount ==
    /\ rendered.screen = "none"
    /\ rendered' = Render
    /\ UNCHANGED <<currentState, selectedQuiz, isDark, currentQuestionIndex,
                   selectedAnswers, userAnswers, showFeedback, localStorage,
                   timers, lastCall, run>>

(*************************** the controls on screen ***********************)
\* Each takes Fails, the sets of keys whose setItem may throw during the
\* call; React renders App again after the handler returns.

\* mutant of PlayAgainClick: the quiz starts again at the question and with
\* the answers it ended with
PlayAgainClickResumes(Fails) ==
    /\ rendered.screen = "result"
    /\ \E fail \in Fails :
          /\ currentState' = "question"
          /\ userAnswers' = <<>>
          /\ localStorage' = setItem(localStorage,
                                     [k \in {KeyState, KeyUser} |->
                                        IF k = KeyState THEN "question" ELSE <<>>],
                                     fail)
          /\ UNCHANGED <<selectedQuiz, isDark, currentQuestionIndex,
                         selectedAnswers, showFeedback, timers>>
          /\ lastCall' = Called("handleQuizSelect", selectedQuiz.title)
          /\ run' = NoRun
    /\ rendered' = Render'

\* QuizMenu: a quiz button
QuizButtonClick(Fails) ==
    /\ rendered.screen = "menu"
    /\ \E i \in DOMAIN rendered.quizzes, fail \in Fails :
          handleQuizSelect(rendered.quizzes[i], fail)
    /\ rendered' = Render'

\* QuizMenu: the theme toggle
ThemeToggleClick(Fails) ==
    /\ rendered.screen = "menu"
    /\ \E fail \in Fails : toggleTheme(fail)
    /\ rendered' = Render'

\* mutant of OptionClick: onClick calls onAnswerSelect whatever showFeedback
OptionClickAlways(Fails) ==
    /\ rendered.screen = "question"
    /\ \E i \in DOMAIN rendered.options, fail \in Fails :
          handleAnswerSelect(rendered.options[i], fail)
    /\ rendered' = Render'

\* QuestionScreen: an option button, dead while feedback is shown
OptionClick(Fails) ==
    /\ rendered.screen = "question"
    /\ ~rendered.showFeedback
    /\ \E i \in DOMAIN rendered.options, fail \in Fails :
          handleAnswerSelect(rendered.options[i], fail)
    /\ rendered' = Render'

\* QuestionScreen: Next or Submit Quiz, disabled without a selected answer
NextClick(Fails) ==
    /\ rendered.screen = "question"
    /\ ~rendered.nextDisabled
    /\ \E fail \in Fails : handleNext(fail)
    /\ rendered' = Render'

\* QuestionScreen: Previous, disabled on question 1
PreviousClick(Fails) ==
    /\ rendered.screen = "question"
    /\ ~rendered.previousDisabled
    /\ \E fail \in Fails : handlePrevious(fail)
    /\ rendered' = Render'

\* QuestionScreen and ResultsScreen: Back / Back to Menu
BackClick(Fails) ==
    /\ rendered.screen \in {"question", "result"}
    /\ \E fail \in Fails : handleBackToMenu(fail)
    /\ rendered' = Render'

\* ResultsScreen: Play Again
PlayAgainClick(Fails) ==
    /\ rendered.screen = "result"
    /\ \E fail \in Fails : handleQuizSelect(selectedQuiz, fail)
    /\ rendered' = Render'

\* the oldest pending timer elapses: all are set for the same 1500 ms
TimerFires(Fails) ==
    /\ timers # <<>>
    /\ \E fail \in Fails : timeoutCallback(Head(timers), fail)
    /\ timers' = Tail(timers)
    /\ rendered' = IF Unmounted THEN rendered ELSE Render'

\* every localStorage.setItem succeeds
NoFailure == {{}}

\* the page is loaded again: pending timers are gone with the old page and
\* the useLocalStorage calls of App build the state from the store
Reload ==
    /\ currentState' = useLocalStorage(localStorage, KeyState)
    /\ selectedQuiz' = useLocalStorage(localStorage, KeyQuiz)
    /\ isDark' = useLocalStorage(localStorage, KeyTheme)
    /\ currentQuestionIndex' = useLocalStorage(localStorage, KeyIndex)
    /\ selectedAnswers' = useLocalStorage(localStorage, KeySelected)
    /\ userAnswers' = useLocalStorage(localStorage, KeyUser)
    /\ showFeedback' = useLocalStorage(localStorage, KeyFeedback)
    /\ timers' = <<>>
    /\ rendered' = [screen |-> "none"]
    /\ lastCall' = Called("reload", "")
    /\ run' = NoRun
    /\ UNCHANGED localStorage

Next ==
    \/ Mount
    \/ QuizButtonClick(NoFailure)
    \/ ThemeToggleClick(NoFailure)
    \/ OptionClick(NoFailure)
    \/ NextClick(NoFailure)
    \/ PreviousClick(NoFailure)
    \/ BackClick(NoFailure)
    \/ PlayAgainClick(NoFailure)
    \/ TimerFires(NoFailure)

Spec == Init /\ [][Next]_vars

(*************************** the results screen alone *********************)
\* a quiz of n questions; the answers alternate A, B, A, ...
ScoreQuiz(n) ==
    [title |-> "Quiz",
     questions |-> [i \in 1..n |->
                      Question("q", <<"A", "B">>,
                               IF i % 2 = 1 THEN "A" ELSE "B")]]

\* arrays of at most n strings from S
ArraysUpTo(S, n) == UNION {[1..m -> S] : m \in 0..n}

\* a store left by a finished quiz: any quiz, any submitted answers
ScoreStore(quiz, answers) ==
    setItem(EmptyStore,
            [k \in {KeyState, KeyQuiz, KeyUser} |->
               CASE k = KeyState -> "result"
                 [] k = KeyQuiz -> quiz
                 [] k = KeyUser -> answers],
            {})

ScoreInit ==
    \E n \in 0..MaxScoreLen, answers \in ArraysUpTo({"", "A", "B"}, MaxScoreLen) :
        Constructed(ScoreStore(ScoreQuiz(n), answers))

ScoreNext == Mount

SpecScore == ScoreInit /\ [][ScoreNext]_vars

(*************************** with timers that do elapse *******************)
\* a timer set with setTimeout(..., 1500) is run by the event loop: a
\* pending timer does not wait for ever
SpecLive == Init /\ [][Next]_vars /\ WF_vars(TimerFires(NoFailure))

(*************************** with page reloads ****************************)
ReloadNext ==
    \/ Next
    \/ Reload

SpecReload == Init /\ [][ReloadNext]_vars

\* the field App keeps under a key
Field(k) ==
    CASE k = KeyState -> currentState
      [] k = KeyQuiz -> selectedQuiz
      [] k = KeyTheme -> isDark
      [] k = KeyIndex -> currentQuestionIndex
      [] k = KeySelected -> selectedAnswers
      [] k = KeyUser -> userAnswers
      [] k = KeyFeedback -> showFeedback

(*************************** a first render over any store ****************)
\* what a key may hold when the page is loaded: nothing, the empty string,
\* a text that is not JSON, or what setValue stored in an earlier visit
StartItems(key) ==
    {NoItem, [present |-> TRUE, text |-> EmptyText], [present |-> TRUE, text |-> NotJson]}
    \cup {[present |-> TRUE, text |-> JSONStringify(key, v)] :
             v \in CASE key = KeyState -> {"menu", "question", "result"}
                     [] key = KeyQuiz -> {Null, HTML}
                     [] key = KeyTheme -> {FALSE}
                     [] key = KeyIndex -> {1}
                     [] key = KeySelected -> {<<"B", "">>}
                     [] key = KeyUser -> {<<"B", "A">>}
                     [] key = KeyFeedback -> {TRUE}}

StartStore(a, b, c, d, e, f, g) ==
    [k \in Keys |->
        CASE k = KeyState -> a
          [] k = KeyQuiz -> b
          [] k = KeyTheme -> c
          [] k = KeyIndex -> d
          [] k = KeySelected -> e
          [] k = KeyUser -> f
          [] k = KeyFeedback -> g]

StartupInit ==
    \E a \in StartItems(KeyState), b \in StartItems(KeyQuiz),
       c \in StartItems(KeyTheme), d \in StartItems(KeyIndex),
       e \in StartItems(KeySelected), f \in StartItems(KeyUser),
       g \in StartItems(KeyFeedback) :
          Constructed(StartStore(a, b, c, d, e, f, g))

StartupNext == Mount

SpecStartup == StartupInit /\ [][StartupNext]_vars

(*************************** with failing writes **************************)
\* localStorage.setItem throws for no key, for one key (quota exceeded by
\* its value) or for every key (storage disabled)
AnyFailure == {{}, Keys} \cup {{k} : k \in Keys}

\* every stored item reads back as the field in memory
Synced == \A k \in Keys : useLocalStorage(localStorage, k) = Field(k)

\* the calls in which writes fail start from a store that mirrors the
\* memory: one failing call at a time, followed until the store catches up
Failures == IF Synced THEN AnyFailure ELSE NoFailure

StorageNext ==
    \/ Mount
    \/ QuizButtonClick(Failures)
    \/ ThemeToggleClick(Failures)
    \/ OptionClick(Failures)
    \/ NextClick(Failures)
    \/ PreviousClick(Failures)
    \/ BackClick(Failures)
    \/ PlayAgainClick(Failures)
    \/ TimerFires(Failures)

SpecStorage == Init /\ [][StorageNext]_vars

(*************************** the handlers without the controls' guards ****)
\* The screen on display calls the callbacks App gave it, whether or not
\* the control that carries them is disabled.

\* QuestionScreen: onAnswerSelect(option)
OnAnswerSelectCall(Fails) ==
    /\ rendered.screen = "question"
    /\ \E i \in DOMAIN rendered.options, fail \in Fails :
          handleAnswerSelect(rendered.options[i], fail)
    /\ rendered' = Render'

\* QuestionScreen: onNext()
OnNextCall(Fails) ==
    /\ rendered.screen = "question"
    /\ \E fail \in Fails : handleNext(fail)
    /\ rendered' = Render'

\* QuestionScreen: onPrevious()
OnPreviousCall(Fails) ==
    /\ rendered.screen = "question"
    /\ \E fail \in Fails : handlePrevious(fail)
    /\ rendered' = Render'

HandlersNext ==
    \/ Mount
    \/ QuizButtonClick(NoFailure)
    \/ ThemeToggleClick(NoFailure)
    \/ OnAnswerSelectCall(NoFailure)
    \/ OnNextCall(NoFailure)
    \/ OnPreviousCall(NoFailure)
    \/ BackClick(NoFailure)
    \/ PlayAgainClick(NoFailure)
    \/ TimerFires(NoFailure)

SpecHandlers == Init /\ [][HandlersNext]_vars

(*************************** properties ***********************************)

\* C1: on the question screen a quiz is selected and currentQuestionIndex
\* is the index of one of its questions.
C1_QuestionIndexInRange ==
    currentState = "question" =>
        /\ selectedQuiz # Null
        /\ 0 <= currentQuestionIndex
        /\ currentQuestionIndex < QuestionsLength(selectedQuiz)

\* C2: while a quiz is selected, selectedAnswers has one entry per question.
C2_AnswersMatchQuestions ==
    selectedQuiz # Null => Len(selectedAnswers) = Len(selectedQuiz.questions)

\* C2 witness: an answer was just stored at the last index of the longest
\* quiz, after its timers fired.
C2_Witness ==
    /\ selectedQuiz = CSS
    /\ currentQuestionIndex = 2
    /\ lastCall.op = "handleAnswerSelect"
    /\ Len(selectedAnswers) = 3

\* C3: in a run that starts at handleQuizSelect with no timer pending and
\* consists of handleNext calls, each made after the previous timer fired,
\* the results screen is reached exactly at the n-th call on a quiz of n
\* questions, with userAnswers equal to selectedAnswers; before it the
\* question shown is the one after the calls made.
C3_RunEndsAtResult ==
    run.ok =>
        /\ run.advances <= QuestionsLength(selectedQuiz)
        /\ run.advances = QuestionsLength(selectedQuiz) =>
              /\ currentState = "result"
              /\ rendered.screen = "result"
              /\ userAnswers = selectedAnswers
        /\ run.advances < QuestionsLength(selectedQuiz) =>
              /\ currentState = "question"
              /\ timers = <<>> => currentQuestionIndex = run.advances

\* C3 witness: a 3-question quiz finished by three handleNext calls.
C3_Witness ==
    /\ run.ok
    /\ run.advances = 3
    /\ selectedQuiz = CSS
    /\ currentState = "result"

\* C4: right after handleBackToMenu the session is the menu with no quiz, index 0,
\* no answers and no feedback.
C4_BackToMenuResets ==
    lastCall.op = "handleBackToMenu" =>
        /\ currentState = "menu"
        /\ selectedQuiz = Null
        /\ currentQuestionIndex = 0
        /\ selectedAnswers = <<>>
        /\ userAnswers = <<>>
        /\ showFeedback = FALSE

\* C4 witness: back to the menu during feedback, the timer still pending.
C4_Witness ==
    /\ lastCall.op = "handleBackToMenu"
    /\ timers # <<>>
    /\ rendered.screen = "menu"

\* C5: right after handleQuizSelect(quiz) the session is question 1 of that
\* quiz with one empty answer per question, nothing submitted, no feedback.
C5_QuizSelectEffects ==
    lastCall.op = "handleQuizSelect" =>
        /\ selectedQuiz # Null
        /\ \E i \in DOMAIN quizData : selectedQuiz = quizData[i]
        /\ selectedQuiz.title = lastCall.arg
        /\ currentQuestionIndex = 0
        /\ Len(selectedAnswers) = Len(selectedQuiz.questions)
        /\ \A i \in DOMAIN selectedAnswers : selectedAnswers[i] = ""
        /\ userAnswers = <<>>
        /\ showFeedback = FALSE
        /\ currentState = "question"

\* C5 witness: a quiz selected while a timer of the previous run is pending.
C5_Witness ==
    /\ lastCall.op = "handleQuizSelect"
    /\ timers # <<>>
    /\ selectedQuiz = CSS

\* C6: handleNext before the last question turns feedback on and leaves the
\* index alone; when its timer is the only one pending and fires next, the
\* index goes up by one and feedback is turned off.
C6_FeedbackThenNextQuestion ==
    [][ /\ (lastCall'.op = "handleNext"
             /\ IsBeforeLast(currentQuestionIndex, selectedQuiz)) =>
               /\ showFeedback' = TRUE
               /\ currentQuestionIndex' = currentQuestionIndex
               /\ timers' = Append(timers, currentQuestionIndex)
        /\ (lastCall.op = "handleNext" /\ currentState = "question"
             /\ Len(timers) = 1 /\ lastCall'.op = "timeout") =>
               /\ currentQuestionIndex' = currentQuestionIndex + 1
               /\ showFeedback' = FALSE
               /\ timers' = <<>> ]_vars

\* C6 witness: question 2 of a quiz reached by handleNext and its timer, with
\* nothing else in between.
C6_Witness ==
    /\ lastCall.op = "timeout"
    /\ run.ok
    /\ run.advances = 1
    /\ currentQuestionIndex = 1
    /\ showFeedback = FALSE
    /\ rendered.screen = "question"

\* C7: handleNext on the last question copies selectedAnswers to userAnswers
\* and shows the results in the same step; the feedback flag and the pending
\* timers are left as they were.
C7_SubmitOnLastQuestion ==
    [][ (lastCall'.op = "handleNext"
          /\ currentQuestionIndex = QuestionsLength(selectedQuiz) - 1) =>
            /\ userAnswers' = selectedAnswers
            /\ selectedAnswers' = selectedAnswers
            /\ currentState' = "result"
            /\ rendered'.screen = "result"
            /\ showFeedback' = showFeedback
            /\ timers' = timers ]_vars

\* C7 witness: the results of a 2-question quiz right after handleNext.
C7_Witness ==
    /\ lastCall.op = "handleNext"
    /\ currentState = "result"
    /\ selectedQuiz = HTML
    /\ currentQuestionIndex = 1
    /\ userAnswers = selectedAnswers
    /\ showFeedback = FALSE

\* the positions at which an answer list agrees with the quiz
Matches(quiz, answers) ==
    {i \in 1..Len(quiz.questions) :
        i <= Len(answers) /\ answers[i] = quiz.questions[i].answer}

\* n/d rounded to the nearest integer, a half rounded up: the p with
\* p - 1/2 <= n/d < p + 1/2
Nearest(n, d) ==
    CHOOSE p \in 0..(n + 1) : 2 * d * p <= 2 * n + d /\ 2 * n + d < 2 * d * (p + 1)

C9_EmptyQuizPercentage ==
    (rendered.screen = "result" /\ rendered.totalQuestions = 0) =>
        rendered.percentage = Num(0)

\* C10: handleAnswerSelect right after handleAnswerSelect: the answer at the
\* current index is the one just given; the same answer again changes
\* nothing in the session or the store; another answer replaces the first
\* and nothing else changes.
C10_AnswerSelectTwice ==
    [][ (lastCall.op = "handleAnswerSelect"
          /\ lastCall'.op = "handleAnswerSelect") =>
            /\ ArrayGet(selectedAnswers', currentQuestionIndex') = lastCall'.arg
            /\ Len(selectedAnswers') = Len(selectedAnswers)
            /\ \A i \in DOMAIN selectedAnswers :
                  i # currentQuestionIndex + 1 =>
                      selectedAnswers'[i] = selectedAnswers[i]
            /\ UNCHANGED <<currentState, selectedQuiz, isDark,
                           currentQuestionIndex, userAnswers, showFeedback,
                           timers>>
            /\ lastCall'.arg = lastCall.arg =>
                  UNCHANGED <<selectedAnswers, localStorage, rendered>> ]_vars

\* C10 witness: a second answer given for the same question.
C10_Witness ==
    /\ lastCall.op = "handleAnswerSelect"
    /\ lastCall.streak = 2
    /\ lastCall.arg = "D"
    /\ selectedAnswers = <<"D", "">>

\* C11: handlePrevious at index 0 changes no field of the session, nothing
\* in localStorage, no timer and nothing on screen.
C11_PreviousAtFirstQuestion ==
    [][ (lastCall'.op = "handlePrevious" /\ currentQuestionIndex = 0) =>
            UNCHANGED <<currentState, selectedQuiz, isDark,
                        currentQuestionIndex, selectedAnswers, userAnswers,
                        showFeedback, localStorage, timers, rendered>> ]_vars

\* C11 witness: handlePrevious called twice in a row on a 2-question quiz;
\* the second call is made at index 0.
C11_Witness ==
    /\ lastCall.op = "handlePrevious"
    /\ lastCall.streak = 2
    /\ selectedQuiz = HTML
    /\ currentQuestionIndex = 0
    /\ rendered.screen = "question"

\* C12: on the 2-question quiz HTML (options A to D, answer B twice), the
\* run handleQuizSelect, answer B, handleNext, timer, answer A, handleNext:
\* after the first handleNext feedback is shown at index 0 until the timer
\* fires and makes the index 1, and the run ends on the results screen with
\* userAnswers B, A and the score 1 of 2, 50 percent.
C12_EndToEnd ==
    (run.ok /\ selectedQuiz = HTML) =>
        /\ (run.advances = 1 /\ run.picks = 1 /\ timers # <<>>) =>
              (showFeedback /\ currentQuestionIndex = 0)
        /\ (run.advances = 1 /\ timers = <<>>) =>
              (~showFeedback /\ currentQuestionIndex = 1)
        /\ (run.advances = 2 /\ run.picks = 2
             /\ selectedAnswers = <<"B", "A">>) =>
              /\ userAnswers = <<"B", "A">>
              /\ currentState = "result"
              /\ rendered = [screen |-> "result", score |-> 1,
                             totalQuestions |-> 2, percentage |-> Num(50)]

\* C12 witness: the end of that run.
C12_Witness ==
    /\ run = [ok |-> TRUE, advances |-> 2, picks |-> 2]
    /\ selectedQuiz = HTML
    /\ userAnswers = <<"B", "A">>
    /\ rendered.screen = "result"
    /\ lastCall.op = "handleNext"

\* C13: toggleTheme negates isDark and no other handler or timer changes it,
\* so the theme set on the menu survives handleBackToMenu.
C13_ThemeOnlyByToggle ==
    [][ /\ lastCall'.op = "toggleTheme" => isDark' = ~isDark
        /\ lastCall'.op # "toggleTheme" => isDark' = isDark ]_vars

\* C13 witness: back on the menu with the light theme chosen earlier.
C13_Witness ==
    /\ lastCall.op = "handleBackToMenu"
    /\ isDark = FALSE
    /\ localStorage[KeyTheme] = [present |-> TRUE, text |-> JSONStringify(KeyTheme, FALSE)]

\* what reading each key from the store gives
StoredSession ==
    <<useLocalStorage(localStorage, KeyState),
      useLocalStorage(localStorage, KeyQuiz),
      useLocalStorage(localStorage, KeyTheme),
      useLocalStorage(localStorage, KeyIndex),
      useLocalStorage(localStorage, KeySelected),
      useLocalStorage(localStorage, KeyUser),
      useLocalStorage(localStorage, KeyFeedback)>>

\* C14: with every setItem succeeding, while App is on screen each of the
\* seven fields equals what reading its key from localStorage gives.
C14_StoreMirrorsSession ==
    rendered.screen # "crashed" => state = StoredSession

\* C14 witness: during feedback on question 2 of 3, answers given, light theme.
C14_Witness ==
    /\ showFeedback
    /\ selectedQuiz = CSS
    /\ currentQuestionIndex = 1
    /\ selectedAnswers = <<"A", "B", "">>
    /\ isDark = FALSE
    /\ lastCall.op = "handleNext"

\* C15: loading the page again while App is on screen rebuilds the seven
\* fields with the values they had.
C15_ReloadKeepsSession ==
    [][ (lastCall'.op = "reload" /\ rendered.screen # "crashed") =>
            state' = state ]_vars

\* C15 witness: a reload on the results screen of a finished quiz.
C15_Witness ==
    /\ lastCall.op = "reload"
    /\ currentState = "result"
    /\ selectedQuiz = HTML
    /\ userAnswers = <<"B", "A">>
    /\ isDark = FALSE
    /\ rendered.screen = "none"

\* C16: whichever setItem calls throw, a handler changes the fields in
\* memory as it does when none throws, and each stored item either stays as
\* it was or, when written, agrees with the field in memory.
C16_WriteFailure ==
    [][ rendered.screen # "crashed" =>
          /\ \A k \in Keys :
                \/ localStorage'[k] = localStorage[k]
                \/ useLocalStorage(localStorage', k) = Field(k)'
          /\ lastCall'.op = "toggleTheme" => isDark' = ~isDark
          /\ lastCall'.op = "handleQuizSelect" =>
                /\ currentState' = "question"
                /\ selectedQuiz'.title = lastCall'.arg
                /\ currentQuestionIndex' = 0
                /\ selectedAnswers' = ArrayFill(QuestionsLength(selectedQuiz'))
                /\ userAnswers' = <<>>
                /\ showFeedback' = FALSE
          /\ lastCall'.op = "handleAnswerSelect" =>
                selectedAnswers' = ArraySet(selectedAnswers,
                                            currentQuestionIndex, lastCall'.arg)
          /\ lastCall'.op = "handleNext" =>
                IF IsBeforeLast(currentQuestionIndex, selectedQuiz)
                THEN showFeedback' /\ timers' = Append(timers, currentQuestionIndex)
                ELSE currentState' = "result" /\ userAnswers' = selectedAnswers
          /\ lastCall'.op = "handlePrevious" =>
                currentQuestionIndex' = currentQuestionIndex - 1
          /\ lastCall'.op = "handleBackToMenu" =>
                /\ currentState' = "menu"
                /\ selectedQuiz' = Null
                /\ currentQuestionIndex' = 0
                /\ selectedAnswers' = <<>>
                /\ userAnswers' = <<>>
                /\ showFeedback' = FALSE
          /\ lastCall'.op = "timeout" =>
                /\ currentQuestionIndex' = Head(timers) + 1
                /\ showFeedback' = FALSE ]_vars

\* C16 witness: the theme was toggled to light and back to dark, the second
\* write failed and the store still says light; a quiz was then started and
\* its writes went through.
C16_Witness ==
    /\ isDark = TRUE
    /\ localStorage[KeyTheme] = [present |-> TRUE, text |-> JSONStringify(KeyTheme, FALSE)]
    /\ currentState = "question"
    /\ localStorage[KeyState] = [present |-> TRUE, text |-> JSONStringify(KeyState, "question")]
    /\ rendered.screen = "question"

\* C17: at startup each field is built from its own key alone: the default
\* when the key is absent or its text is empty or not JSON, the parsed text
\* otherwise; over an empty store the fields are menu, null, true, 0, [],
\* [], false.
C17_StartupDefaults ==
    /\ \A k \in Keys :
          IF localStorage[k].present /\ IsJson(localStorage[k].text)
          THEN Field(k) = JSONParse(localStorage[k].text)
          ELSE Field(k) = CASE k = KeyState -> "menu"
                            [] k = KeyQuiz -> Null
                            [] k = KeyTheme -> TRUE
                            [] k = KeyIndex -> 0
                            [] k = KeySelected -> <<>>
                            [] k = KeyUser -> <<>>
                            [] k = KeyFeedback -> FALSE
    /\ localStorage = EmptyStore =>
          state = <<"menu", Null, TRUE, 0, <<>>, <<>>, FALSE>>

\* C17 witness: the state key holds a text that is not JSON and the theme key
\* is absent, the other keys hold a stored session; the menu is rendered.
C17_Witness ==
    /\ localStorage[KeyState] = [present |-> TRUE, text |-> NotJson]
    /\ ~localStorage[KeyTheme].present
    /\ localStorage[KeyIndex].present /\ IsJson(localStorage[KeyIndex].text)
    /\ currentState = "menu"
    /\ isDark = TRUE
    /\ currentQuestionIndex = 1
    /\ selectedQuiz = HTML
    /\ rendered.screen = "menu"

\* C18: a timer set by handleNext at index i stays pending through every
\* other handler call, and when it elapses it stores i + 1 and false and,
\* with App on screen, sets currentQuestionIndex to i + 1 and showFeedback
\* to false, whatever quiz and index the state then holds.
C18_TimerNeverCancelled ==
    [][ /\ lastCall'.op = "timeout" =>
              /\ timers # <<>>
              /\ timers' = Tail(timers)
              /\ useLocalStorage(localStorage', KeyIndex) = Head(timers) + 1
              /\ useLocalStorage(localStorage', KeyFeedback) = FALSE
              /\ rendered.screen # "crashed" =>
                    /\ currentQuestionIndex' = Head(timers) + 1
                    /\ showFeedback' = FALSE
        /\ lastCall'.op # "timeout" =>
              \/ timers' = timers
              \/ /\ lastCall'.op = "handleNext"
                 /\ timers' = Append(timers, currentQuestionIndex) ]_vars

\* C18 witness: a timer set in the HTML quiz has elapsed after Back and the
\* choice of the CSS quiz, which is now at its second question unanswered.
C18_Witness ==
    /\ lastCall.op = "timeout"
    /\ selectedQuiz = CSS
    /\ currentQuestionIndex = 1
    /\ selectedAnswers = <<"", "", "">>
    /\ rendered.screen = "question"
    /\ timers = <<>>

\* C19: in every state, also after a reload, showFeedback implies that the
\* question screen is current and a timer set by handleNext is pending.
C19_FeedbackHasTimer ==
    showFeedback => (currentState = "question" /\ timers # <<>>)

\* C20: through the controls of the question screen, while showFeedback is
\* true no step is a handleAnswerSelect call and selectedAnswers keeps its
\* value, except when handleQuizSelect or handleBackToMenu replaces it.
C20_AnswersFrozenDuringFeedback ==
    [][ showFeedback =>
          /\ lastCall'.op # "handleAnswerSelect"
          /\ lastCall'.op \notin {"handleQuizSelect", "handleBackToMenu"} =>
                selectedAnswers' = selectedAnswers ]_vars

\* C20 witness: feedback is on for question 2 of CSS and Previous was
\* clicked meanwhile; the answers are those given before Next.
C20_Witness ==
    /\ showFeedback
    /\ rendered.screen = "question" /\ rendered.showFeedback
    /\ lastCall.op = "handlePrevious"
    /\ selectedQuiz = CSS
    /\ currentQuestionIndex = 0
    /\ selectedAnswers = <<"A", "B", "">>
    /\ timers = <<1>>


\* C21: handleNext called while the answer of the current question is the
\* empty string still shows feedback and sets the timer (not the last
\* question) or submits (last question, userAnswers then holds the empty
\* string); the Next/Submit button of the question screen is what is
\* disabled for an empty answer.
C21_NextDoesNotCheckAnswer ==
    [][ /\ (lastCall'.op = "handleNext" /\ rendered.screen = "question" /\ ArrayGet(selectedAnswers, currentQuestionIndex) = "") =>
              IF IsBeforeLast(currentQuestionIndex, selectedQuiz)
              THEN /\ showFeedback'
                   /\ timers' = Append(timers, currentQuestionIndex)
                   /\ UNCHANGED <<currentState, currentQuestionIndex, userAnswers>>
              ELSE /\ currentState' = "result"
                   /\ userAnswers' = selectedAnswers
                   /\ \E i \in DOMAIN userAnswers' : userAnswers'[i] = ""
        /\ (rendered.screen = "question" /\ ArrayGet(selectedAnswers, currentQuestionIndex) = "") =>
              rendered.nextDisabled ]_vars

\* C21 witness: the one-question quiz submitted without an answer.
C21_Witness ==
    /\ lastCall.op = "handleNext"
    /\ selectedQuiz = JavaScript
    /\ currentState = "result"
    /\ userAnswers = <<"">>
    /\ rendered.screen = "result"


\* C22: from the first visit on, currentState is menu, question or result;
\* no handler and no timer callback gives it the value completed of
\* QuizState.
C22_CompletedNeverAssigned ==
    /\ currentState \in QuizState \ {"completed"}
    /\ useLocalStorage(localStorage, KeyState) \in QuizState \ {"completed"}

\* C22 witness: a quiz was submitted and the state is result.
C22_Witness ==
    /\ currentState = "result"
    /\ lastCall.op = "handleNext"
    /\ selectedQuiz = CSS
    /\ userAnswers = <<"A", "B", "A">>


\* C23: userAnswers is non-empty only in the state result; handleQuizSelect
\* and handleBackToMenu empty it; handleAnswerSelect, handlePrevious,
\* handleNext before the last question and the timer callback leave it as
\* it is.
C23_UserAnswersOnlyAtResult ==
    [][ /\ userAnswers # <<>> => currentState = "result"
        /\ userAnswers' # <<>> => currentState' = "result"
        /\ lastCall'.op \in {"handleQuizSelect", "handleBackToMenu"} =>
              userAnswers' = <<>>
        /\ (\/ lastCall'.op \in {"handleAnswerSelect", "handlePrevious", "timeout"}
            \/ /\ lastCall'.op = "handleNext"
               /\ IsBeforeLast(currentQuestionIndex, selectedQuiz)) =>
              userAnswers' = userAnswers ]_vars

\* C23 witness: a timer left over from the first question elapses on the
\* results screen; the submitted answers are still there.
C23_Witness ==
    /\ lastCall.op = "timeout"
    /\ currentState = "result"
    /\ selectedQuiz = HTML
    /\ userAnswers = <<"B", "A">>
    /\ rendered.screen = "result"


\* the keys of the five fields handleQuizSelect is said to store as one
QuizSelectKeys == {KeyQuiz, KeyIndex, KeySelected, KeyUser, KeyState}

\* C24: after handleQuizSelect, also when some setItem calls throw, the
\* stored quiz, index, selected answers, submitted answers and state read
\* either all as before the call or all as the call set them.
C24_QuizSelectStoredAtomically ==
    [][ lastCall'.op = "handleQuizSelect" =>
          \/ \A k \in QuizSelectKeys :
                useLocalStorage(localStorage', k) = useLocalStorage(localStorage, k)
          \/ \A k \in QuizSelectKeys :
                useLocalStorage(localStorage', k) = Field(k)' ]_vars


\* C25: handlePrevious with currentQuestionIndex > 0 lowers the index by
\* one and changes no other field and no timer, also while showFeedback is
\* true.
C25_PreviousFrame ==
    [][ (lastCall'.op = "handlePrevious" /\ currentQuestionIndex > 0) =>
          /\ currentQuestionIndex' = currentQuestionIndex - 1
          /\ useLocalStorage(localStorage', KeyIndex) = currentQuestionIndex - 1
          /\ UNCHANGED <<showFeedback, selectedAnswers, userAnswers,
                         selectedQuiz, currentState, isDark, timers>> ]_vars

\* C25 witness: Previous during the feedback of question 2 of CSS, in the
\* light theme: question 1 is shown with the feedback still on.
C25_Witness ==
    /\ lastCall.op = "handlePrevious"
    /\ showFeedback
    /\ isDark = FALSE
    /\ selectedQuiz = CSS
    /\ currentQuestionIndex = 0
    /\ selectedAnswers = <<"B", "A", "">>
    /\ rendered.screen = "question"
    /\ rendered.questionNumber = 1


\* C26: handleAnswerSelect(answer) puts answer at position
\* currentQuestionIndex of selectedAnswers and changes no other position,
\* no other field and no timer.
C26_AnswerSelectFrame ==
    [][ lastCall'.op = "handleAnswerSelect" =>
          /\ Len(selectedAnswers') = Len(selectedAnswers)
          /\ \A i \in DOMAIN selectedAnswers :
                selectedAnswers'[i] = IF i = currentQuestionIndex + 1
                                      THEN lastCall'.arg
                                      ELSE selectedAnswers[i]
          /\ UNCHANGED <<currentState, selectedQuiz, currentQuestionIndex,
                         userAnswers, showFeedback, isDark, timers>> ]_vars

\* C26 witness: the first answer of CSS is changed after the other two were
\* given.
C26_Witness ==
    /\ lastCall.op = "handleAnswerSelect"
    /\ lastCall.arg = "B"
    /\ selectedQuiz = CSS
    /\ currentQuestionIndex = 0
    /\ selectedAnswers = <<"B", "B", "A">>
    /\ rendered.screen = "question"
    /\ rendered.selectedAnswer = "B"


\* C27: toggleTheme negates isDark and changes no other field and no
\* timer; a second toggleTheme call right after the first gives back the
\* fields, and the stored theme, the first call found.
C27_ToggleThemeTwice ==
    [][ lastCall'.op = "toggleTheme" =>
          /\ isDark' = ~isDark
          /\ useLocalStorage(localStorage', KeyTheme) = ~isDark
          /\ UNCHANGED <<currentState, selectedQuiz, currentQuestionIndex,
                         selectedAnswers, userAnswers, showFeedback, timers>>
          /\ lastCall.op = "toggleTheme" =>
                /\ state' = lastCall.before
                /\ useLocalStorage(localStorage', KeyTheme) = lastCall.before[3] ]_vars

\* C27 witness: the second of two toggles in a row on the menu, back in the
\* dark theme, with the index a stale timer left at 1.
C27_Witness ==
    /\ lastCall.op = "toggleTheme"
    /\ lastCall.streak = 2
    /\ isDark = TRUE
    /\ currentQuestionIndex = 1
    /\ localStorage[KeyTheme] = [present |-> TRUE, text |-> JSONStringify(KeyTheme, TRUE)]
    /\ rendered.screen = "menu"


\* C28: Play Again on the results screen is handleQuizSelect(selectedQuiz):
\* the same quiz is on the question screen at its first question, every
\* selected answer is the empty string and userAnswers is empty.
C28_PlayAgain ==
    [][ (rendered.screen = "result" /\ lastCall'.op = "handleQuizSelect") =>
          /\ selectedQuiz' = selectedQuiz
          /\ currentState' = "question"
          /\ currentQuestionIndex' = 0
          /\ Len(selectedAnswers') = QuestionsLength(selectedQuiz)
          /\ \A i \in DOMAIN selectedAnswers' : selectedAnswers'[i] = ""
          /\ userAnswers' = <<>>
          /\ showFeedback' = FALSE
          /\ rendered'.screen = "question"
          /\ rendered'.questionNumber = 1
          /\ rendered'.selectedAnswer = "" ]_vars

\* C28 witness: CSS again right after Play Again on its results screen.
C28_Witness ==
    /\ lastCall.op = "handleQuizSelect"
    /\ lastCall.before = <<"result">>
    /\ selectedQuiz = CSS
    /\ currentState = "question"
    /\ selectedAnswers = <<"", "", "">>
    /\ userAnswers = <<>>
    /\ rendered.screen = "question"


\* C29: through the controls of the screens, in the state result every
\* entry of userAnswers is a non-empty string.
C29_NoUnansweredAtResult ==
    currentState = "result" =>
        \A i \in DOMAIN userAnswers : ~IsFalsy(userAnswers[i])


\* C30: after two handleNext calls in a row at the same index i, not the
\* last, and then the callbacks of both timers with no other call between,
\* currentQuestionIndex is i + 1 and showFeedback is false.
C30_DoubleNextMovesOne ==
    (lastCall.op = "timeout" /\ lastCall.streak = 2 /\ lastCall.before # <<>>) =>
        /\ currentQuestionIndex = lastCall.before[1] + 1
        /\ showFeedback = FALSE
        /\ timers = <<>>
        /\ rendered.screen = "question"
        /\ rendered.questionNumber = lastCall.before[1] + 2

\* C30 witness: both timers of a double Next on question 2 of CSS have
\* elapsed; question 3 is on screen.
C30_Witness ==
    /\ lastCall = [op |-> "timeout", arg |-> "", streak |-> 2, before |-> <<1>>]
    /\ selectedQuiz = CSS
    /\ currentQuestionIndex = 2
    /\ showFeedback = FALSE
    /\ timers = <<>>


\* C31: in the state menu no quiz is selected, the index is 0, selectedAnswers
\* and userAnswers are empty and showFeedback is false, also after a timer
\* set before handleBackToMenu has elapsed.
C31_MenuIsReset ==
    currentState = "menu" =>
        /\ selectedQuiz = Null
        /\ currentQuestionIndex = 0
        /\ selectedAnswers = <<>>
        /\ userAnswers = <<>>
        /\ showFeedback = FALSE


\* C32: in the state result a quiz is selected, showFeedback is false, and
\* userAnswers has one entry per question of the quiz, each equal to the
\* entry of selectedAnswers at the same position.
C32_ResultHasAllAnswers ==
    currentState = "result" =>
        /\ selectedQuiz # Null
        /\ showFeedback = FALSE
        /\ Len(userAnswers) = QuestionsLength(selectedQuiz)
        /\ userAnswers = selectedAnswers


\* C32 witness: the results screen of CSS after a reload, three answers
\* submitted.
C32_Witness ==
    /\ currentState = "result"
    /\ lastCall.op = "reload"
    /\ selectedQuiz = CSS
    /\ userAnswers = <<"B", "B", "B">>
    /\ selectedAnswers = <<"B", "B", "B">>
    /\ rendered.screen = "result"


\* C33: in every state, also one built at startup from a store with keys
\* missing, stale or not JSON, currentState is menu or a quiz is selected
\* (otherwise App renders no screen at all).
C33_NeverBlank ==
    /\ currentState = "menu" \/ selectedQuiz # Null
    /\ rendered.screen # "blank"


\* C34: with pending timers elapsing and no reload, whenever showFeedback
\* is true it is false again later, whatever is clicked meanwhile.
C34_FeedbackIsTemporary == showFeedback ~> ~showFeedback

\* C34 witness: Next was clicked twice during the feedback of question 1
\* of CSS; the first timer has elapsed and ended the feedback, the second
\* is still pending.
C34_Witness ==
    /\ lastCall.op = "timeout"
    /\ lastCall.streak = 1
    /\ showFeedback = FALSE
    /\ timers = <<0>>
    /\ selectedQuiz = CSS
    /\ currentQuestionIndex = 1
    /\ currentState = "question"


\* C35: the callback of a timer changes currentQuestionIndex and
\* showFeedback only; currentState, selectedQuiz, selectedAnswers,
\* userAnswers and isDark stay, and when it elapses on the menu or on the
\* results screen what is rendered stays the same.
C35_TimerFrame ==
    [][ lastCall'.op = "timeout" =>
          /\ UNCHANGED <<currentState, selectedQuiz, selectedAnswers,
                         userAnswers, isDark>>
          /\ \A k \in Keys \ {KeyIndex, KeyFeedback} :
                localStorage'[k] = localStorage[k]
          /\ currentState \in {"menu", "result"} => rendered' = rendered ]_vars

\* C35 witness: a timer set in a quiz has elapsed on the menu, in the light
\* theme: the menu is still shown, the index is 1.
C35_Witness ==
    /\ lastCall.op = "timeout"
    /\ currentState = "menu"
    /\ isDark = FALSE
    /\ currentQuestionIndex = 1
    /\ selectedQuiz = Null
    /\ rendered.screen = "menu"


\* C36: for a quiz with at least one question and any list of answers the
\* results screen shows 0 <= score <= total and 0 <= percentage <= 100, and
\* score 0 for an empty list of answers.
C36_ScoreInRange ==
    (rendered.screen = "result" /\ QuestionsLength(selectedQuiz) >= 1) =>
        /\ rendered.score \in 0..rendered.totalQuestions
        /\ ~rendered.percentage.isNaN
        /\ rendered.percentage.value \in 0..100
        /\ userAnswers = <<>> => rendered.score = 0

\* C36 witness: eight answers stored for a quiz of three questions, the
\* first three correct: 3 of 3, 100 percent.
C36_Witness ==
    /\ rendered.screen = "result"
    /\ rendered.totalQuestions = 3
    /\ Len(userAnswers) = 8
    /\ rendered.score = 3
    /\ rendered.percentage = Num(100)

====
